---- MODULE Spec2Model ----
(***************************************************************************)
(* NLSR HelloProtocol (src/src/hello-protocol.cpp): the neighbor liveness  *)
(* sub-protocol.  Names are sequences of name components; a component is   *)
(* a TLV element [t |-> type, v |-> value bytes]; bytes are naturals.      *)
(***************************************************************************)
EXTENDS Integers, Sequences, FiniteSets, TLC

(* ------------------------------------------------------------------ *)
(* Bounds of the model                                                *)
(* ------------------------------------------------------------------ *)

\* largest configured retry limit (getInterestRetryNumber) explored
MaxRetry == 2
\* Interests that may be pending in the face at once
MaxPending == 2
\* Data packets that may wait for the validator's verdict at once
MaxValidating == 1
\* timeouts counted per neighbor beyond the retry limit
MaxTimedOut == 1
\* periodic passes explored at each router of the pair of routers
MaxPasses == 1
\* components of the router identities the name encoding is tried on
MaxComponents == 2

(* ------------------------------------------------------------------ *)
(* Name components and their encodings                                *)
(* ------------------------------------------------------------------ *)

\* TLV-TYPE of a Name block and of a generic name component
TlvName == 7
GenericNameComponent == 8
\* marker byte of a version component (Name::appendVersion)
VersionMarker == 253

\* "INFO" and "nlsr" as bytes
INFO_COMPONENT == <<73, 78, 70, 79>>
NLSR_COMPONENT == <<110, 108, 115, 114>>

Component(t, v) == [t |-> t, v |-> v]

\* Name::append(const std::string&): a generic component holding the text
AppendStr(name, str) == Append(name, Component(GenericNameComponent, str))

\* Name::get(i) for a negative i: the component at Len + i + 1
Get(name, i) == name[Len(name) + i + 1]

\* Name::getPrefix(-k): the name without its last k components
GetPrefix(name, k) == SubSeq(name, 1, Len(name) - k)

HexDigit(d) == IF d < 10 THEN 48 + d ELSE 55 + d

IsUnreserved(b) ==
  \/ b \in 48..57
  \/ b \in 65..90
  \/ b \in 97..122
  \/ b \in {45, 46, 95, 126}

RECURSIVE Escape(_)
Escape(v) ==
  IF v = <<>> THEN <<>>
  ELSE (IF IsUnreserved(Head(v)) THEN <<Head(v)>>
        ELSE <<37, HexDigit(Head(v) \div 16), HexDigit(Head(v) % 16)>>)
       \o Escape(Tail(v))

RECURSIVE Decimal(_)
Decimal(n) == IF n < 10 THEN <<48 + n>> ELSE Append(Decimal(n \div 10), 48 + (n % 10))

\* name::Component::toUri: the escaped value, "<type>=" before it unless generic
ToUri(c) ==
  IF c.t = GenericNameComponent THEN Escape(c.v)
  ELSE Decimal(c.t) \o <<61>> \o Escape(c.v)

RECURSIVE EncodeComponents(_)
EncodeComponents(name) ==
  IF name = <<>> THEN <<>>
  ELSE <<Head(name).t, Len(Head(name).v)>> \o Head(name).v \o EncodeComponents(Tail(name))

\* Name::wireEncode: TLV-TYPE Name, TLV-LENGTH, the components' TLVs
WireEncode(name) ==
  LET body == EncodeComponents(name) IN <<TlvName, Len(body)>> \o body

\* Name::append(const Block&): a block that is no name component is wrapped
\* as the value of a generic component
AppendBlock(name, wire) == Append(name, Component(GenericNameComponent, wire))

\* whether bytes hold a whole number of TLV elements
RECURSIVE WellFormedElements(_)
WellFormedElements(bytes) ==
  \/ bytes = <<>>
  \/ /\ Len(bytes) >= 2
     /\ Len(bytes) >= 2 + bytes[2]
     /\ WellFormedElements(SubSeq(bytes, 3 + bytes[2], Len(bytes)))

RECURSIVE ParseElements(_)
ParseElements(bytes) ==
  IF bytes = <<>> THEN <<>>
  ELSE <<Component(bytes[1], SubSeq(bytes, 3, 2 + bytes[2]))>>
       \o ParseElements(SubSeq(bytes, 3 + bytes[2], Len(bytes)))

\* Component::blockFromValue followed by Name::wireDecode succeeds
CanWireDecode(c) ==
  /\ Len(c.v) >= 2
  /\ c.v[2] = Len(c.v) - 2
  /\ c.v[1] = TlvName
  /\ WellFormedElements(SubSeq(c.v, 3, Len(c.v)))

\* neighbor.wireDecode(interestName.get(-1).blockFromValue())
WireDecode(c) == ParseElements(SubSeq(c.v, 3, Len(c.v)))

\* Name::appendVersion(): one more component, the marker and the version number
AppendVersion(name, version) ==
  Append(name, Component(GenericNameComponent, <<VersionMarker, version>>))

(* ------------------------------------------------------------------ *)
(* Configuration (ConfParameter) and the names of the model           *)
(* ------------------------------------------------------------------ *)

RECURSIVE Name(_)
Name(strs) ==
  IF strs = <<>> THEN <<>>
  ELSE <<Component(GenericNameComponent, Head(strs))>> \o Name(Tail(strs))

\* m_confParam.getRouterPrefix(): this router is /r
RouterPrefix == Name(<< <<114>> >>)
\* the configured neighbors: /a and /b/INFO
NeighborA == Name(<< <<97>> >>)
NeighborB == Name(<< <<98>>, INFO_COMPONENT >>)
\* a router that is no neighbor: /x
Stranger == Name(<< <<120>> >>)

\* m_confParam.getInterestResendTime() and getInfoInterestInterval(), seconds
InterestResendTime == 15
InfoInterestInterval == 60

\* Adjacent::Status
STATUS_UNKNOWN == -1
STATUS_INACTIVE == 0
STATUS_ACTIVE == 1

\* the face ids a neighbor's endpoint may take; 0 is "no face"
FaceIds == {0, 256}
\* the neighbors whose face comes and goes during the run; the face of the
\* others is never created
FacedNeighbors == {NeighborA}

\* version numbers a response may carry
Versions == {1}

\* (uint32_t)-1, the count read for a name that is no neighbor.  It is
\* 4294967295 in the program; the largest integer of the checker stands for it.
UINT32_MAX == 2147483647

(* ------------------------------------------------------------------ *)
(* AdjacencyList: a list of Adjacent                                  *)
(* ------------------------------------------------------------------ *)

Adjacent(name, faceId, status, count) ==
  [name |-> name, faceId |-> faceId, status |-> status, interestTimedOutNo |-> count]

\* AdjacencyList::find: the index of the Adjacent named so, 0 for end()
Find(adj, name) ==
  IF \E i \in 1..Len(adj) : adj[i].name = name
  THEN CHOOSE i \in 1..Len(adj) : adj[i].name = name /\ \A j \in 1..(i-1) : adj[j].name # name
  ELSE 0

IsNeighbor(adj, name) == Find(adj, name) # 0

FindAdjacent(adj, name) == adj[Find(adj, name)]

GetStatusOfNeighbor(adj, name) ==
  IF Find(adj, name) = 0 THEN STATUS_UNKNOWN ELSE adj[Find(adj, name)].status

SetStatusOfNeighbor(adj, name, status) ==
  IF Find(adj, name) = 0 THEN adj
  ELSE [adj EXCEPT ![Find(adj, name)].status = status]

IncrementTimedOutInterestCount(adj, name) ==
  IF Find(adj, name) = 0 THEN adj
  ELSE [adj EXCEPT ![Find(adj, name)].interestTimedOutNo = IF @ = UINT32_MAX THEN 0 ELSE @ + 1]

\* the int32_t -1 of an unknown neighbor read into a uint32_t
GetTimedOutInterestCount(adj, name) ==
  IF Find(adj, name) = 0 THEN UINT32_MAX ELSE adj[Find(adj, name)].interestTimedOutNo

SetTimedOutInterestCount(adj, name, count) ==
  IF Find(adj, name) = 0 THEN adj
  ELSE [adj EXCEPT ![Find(adj, name)].interestTimedOutNo = count]

(* ------------------------------------------------------------------ *)
(* What one handler call does to its collaborators, in call order     *)
(* ------------------------------------------------------------------ *)

Event(ev, name, seconds) == [ev |-> ev, name |-> name, seconds |-> seconds]
Signal(packetType) == Event(packetType, <<>>, 0)

Count(log, ev) == Cardinality({i \in 1..Len(log) : log[i].ev = ev})
CountTo(log, ev, name) ==
  Cardinality({i \in 1..Len(log) : log[i].ev = ev /\ log[i].name = name})

\* HelloProtocol::expressInterest: the Interest goes to the face with the
\* content, nack and timeout callbacks, then SENT_HELLO_INTEREST is signalled
ExpressInterest(interestName, seconds) ==
  << Event("expressInterest", interestName, seconds), Signal("SENT_HELLO_INTEREST") >>

\* the interest name with the two text components transposed
HelloInterestNameAt_MarkerFirst(routerPrefix, neighbor) ==
  AppendBlock(AppendStr(AppendStr(neighbor, INFO_COMPONENT), NLSR_COMPONENT),
              WireEncode(routerPrefix))

\* interest name: /<neighbor>/NLSR/INFO/<router>, built by the router whose
\* m_confParam.getRouterPrefix() is routerPrefix
HelloInterestNameAt(routerPrefix, neighbor) ==
  AppendBlock(AppendStr(AppendStr(neighbor, NLSR_COMPONENT), INFO_COMPONENT),
              WireEncode(routerPrefix))

\* the same, at the router under study
HelloInterestName(neighbor) == HelloInterestNameAt(RouterPrefix, neighbor)

\* HelloProtocol::scheduleInterest
ScheduleInterest(seconds) == << Event("schedule", <<>>, seconds) >>

\* the loop of sendScheduledInterest at the router named routerPrefix
RECURSIVE SendToAdjacentsAt(_, _)
SendToAdjacentsAt(routerPrefix, adj) ==
  IF adj = <<>> THEN <<>>
  ELSE (IF Head(adj).faceId # 0
        THEN ExpressInterest(HelloInterestNameAt(routerPrefix, Head(adj).name),
                             InterestResendTime)
        ELSE <<>>)
       \o SendToAdjacentsAt(routerPrefix, Tail(adj))

SendToAdjacents(adj) == SendToAdjacentsAt(RouterPrefix, adj)

\* sendScheduledInterest skipping the neighbors that are INACTIVE
SendScheduledInterestAt_ActiveOnly(routerPrefix, adj) ==
  SendToAdjacentsAt(routerPrefix,
                    SelectSeq(adj, LAMBDA a : a.status = STATUS_ACTIVE))
    \o ScheduleInterest(InfoInterestInterval)

\* sendScheduledInterest scheduling no next pass when it has probed nobody
SendScheduledInterestAt_StopsWhenIdle(routerPrefix, adj) ==
  IF SendToAdjacentsAt(routerPrefix, adj) = <<>> THEN <<>>
  ELSE SendToAdjacentsAt(routerPrefix, adj) \o ScheduleInterest(InfoInterestInterval)

\* HelloProtocol::sendScheduledInterest at the router named routerPrefix
SendScheduledInterestAt(routerPrefix, adj) ==
  SendToAdjacentsAt(routerPrefix, adj) \o ScheduleInterest(InfoInterestInterval)

\* HelloProtocol::sendScheduledInterest
SendScheduledInterest(adj) == SendScheduledInterestAt(RouterPrefix, adj)

(* ------------------------------------------------------------------ *)
(* The handlers, as functions of the adjacency list and their input   *)
(* ------------------------------------------------------------------ *)

\* processInterest without the isNeighbor test: every requester is answered
ProcessInterest_AnswersAll(adj, interestName, version) ==
  LET rcv == << Signal("RCV_HELLO_INTEREST") >> IN
  IF ToUri(Get(interestName, -2)) # INFO_COMPONENT THEN rcv
  ELSE IF ~CanWireDecode(Get(interestName, -1)) THEN rcv \o << Event("throw", <<>>, 0) >>
  ELSE
    LET neighbor == WireDecode(Get(interestName, -1))
        data == << Event("put", AppendVersion(interestName, version), 0),
                   Signal("SENT_HELLO_DATA") >>
    IN  IF IsNeighbor(adj, neighbor)
           /\ FindAdjacent(adj, neighbor).status = STATUS_INACTIVE
           /\ FindAdjacent(adj, neighbor).faceId # 0
        THEN rcv \o data \o ExpressInterest(HelloInterestName(neighbor), InterestResendTime)
        ELSE rcv \o data

\* processInterest without the test of the face before the reciprocal probe
ProcessInterest_NoFaceTest(adj, interestName, version) ==
  LET rcv == << Signal("RCV_HELLO_INTEREST") >> IN
  IF ToUri(Get(interestName, -2)) # INFO_COMPONENT THEN rcv
  ELSE IF ~CanWireDecode(Get(interestName, -1)) THEN rcv \o << Event("throw", <<>>, 0) >>
  ELSE
    LET neighbor == WireDecode(Get(interestName, -1)) IN
    IF ~IsNeighbor(adj, neighbor) THEN rcv
    ELSE
      LET data == << Event("put", AppendVersion(interestName, version), 0),
                     Signal("SENT_HELLO_DATA") >>
          adjacent == FindAdjacent(adj, neighbor)
      IN  IF adjacent.status = STATUS_INACTIVE
          THEN rcv \o data \o ExpressInterest(HelloInterestName(neighbor), InterestResendTime)
          ELSE rcv \o data

\* processInterest without the probe of its own to an INACTIVE requester
ProcessInterestAt_NoReciprocal(routerPrefix, adj, interestName, version) ==
  LET rcv == << Signal("RCV_HELLO_INTEREST") >> IN
  IF ToUri(Get(interestName, -2)) # INFO_COMPONENT THEN rcv
  ELSE IF ~CanWireDecode(Get(interestName, -1)) THEN rcv \o << Event("throw", <<>>, 0) >>
  ELSE
    LET neighbor == WireDecode(Get(interestName, -1)) IN
    IF ~IsNeighbor(adj, neighbor) THEN rcv
    ELSE rcv \o << Event("put", AppendVersion(interestName, version), 0),
                   Signal("SENT_HELLO_DATA") >>

\* HelloProtocol::processInterest at the router named routerPrefix: the calls
\* it makes (it writes nothing to the adjacency list).  An exception of
\* wireDecode leaves the handler.
ProcessInterestAt(routerPrefix, adj, interestName, version) ==
  LET rcv == << Signal("RCV_HELLO_INTEREST") >> IN
  IF ToUri(Get(interestName, -2)) # INFO_COMPONENT THEN rcv
  ELSE IF ~CanWireDecode(Get(interestName, -1)) THEN rcv \o << Event("throw", <<>>, 0) >>
  ELSE
    LET neighbor == WireDecode(Get(interestName, -1)) IN
    IF ~IsNeighbor(adj, neighbor) THEN rcv
    ELSE
      LET data == << Event("put", AppendVersion(interestName, version), 0),
                     Signal("SENT_HELLO_DATA") >>
          adjacent == FindAdjacent(adj, neighbor)
      IN  IF adjacent.status = STATUS_INACTIVE /\ adjacent.faceId # 0
          THEN rcv \o data \o ExpressInterest(HelloInterestNameAt(routerPrefix, neighbor),
                                              InterestResendTime)
          ELSE rcv \o data

\* HelloProtocol::processInterest
ProcessInterest(adj, interestName, version) ==
  ProcessInterestAt(RouterPrefix, adj, interestName, version)

\* processInterestTimedOut comparing the count it read before the increment
ProcessInterestTimedOut_ComparesFirst(adj, retryNumber, interestName) ==
  IF ToUri(Get(interestName, -2)) # INFO_COMPONENT THEN [adj |-> adj, log |-> <<>>]
  ELSE
    LET neighbor == GetPrefix(interestName, 3)
        infoIntTimedOutCount == GetTimedOutInterestCount(adj, neighbor)
        adj1 == IncrementTimedOutInterestCount(adj, neighbor)
        status == GetStatusOfNeighbor(adj1, neighbor)
    IN  IF infoIntTimedOutCount < retryNumber
        THEN [adj |-> adj1,
              log |-> ExpressInterest(HelloInterestName(neighbor), InterestResendTime)]
        ELSE IF status = STATUS_ACTIVE /\ infoIntTimedOutCount = retryNumber
        THEN [adj |-> SetStatusOfNeighbor(adj1, neighbor, STATUS_INACTIVE),
              log |-> << Event("scheduleAdjLsaBuild", <<>>, 0) >>]
        ELSE [adj |-> adj1, log |-> <<>>]

\* processInterestTimedOut calling the routing table, not the LSDB
ProcessInterestTimedOut_Recalculates(adj, retryNumber, interestName) ==
  IF ToUri(Get(interestName, -2)) # INFO_COMPONENT THEN [adj |-> adj, log |-> <<>>]
  ELSE
    LET neighbor == GetPrefix(interestName, 3)
        adj1 == IncrementTimedOutInterestCount(adj, neighbor)
        status == GetStatusOfNeighbor(adj1, neighbor)
        infoIntTimedOutCount == GetTimedOutInterestCount(adj1, neighbor)
    IN  IF infoIntTimedOutCount < retryNumber
        THEN [adj |-> adj1,
              log |-> ExpressInterest(HelloInterestName(neighbor), InterestResendTime)]
        ELSE IF status = STATUS_ACTIVE /\ infoIntTimedOutCount = retryNumber
        THEN [adj |-> SetStatusOfNeighbor(adj1, neighbor, STATUS_INACTIVE),
              log |-> << Event("scheduleRoutingTableCalculation", <<>>, 0) >>]
        ELSE [adj |-> adj1, log |-> <<>>]

\* processInterestTimedOut retrying also at the retry limit
ProcessInterestTimedOut_RetryAtLimit(adj, retryNumber, interestName) ==
  IF ToUri(Get(interestName, -2)) # INFO_COMPONENT THEN [adj |-> adj, log |-> <<>>]
  ELSE
    LET neighbor == GetPrefix(interestName, 3)
        adj1 == IncrementTimedOutInterestCount(adj, neighbor)
        status == GetStatusOfNeighbor(adj1, neighbor)
        infoIntTimedOutCount == GetTimedOutInterestCount(adj1, neighbor)
    IN  IF infoIntTimedOutCount <= retryNumber
        THEN [adj |-> adj1,
              log |-> ExpressInterest(HelloInterestName(neighbor), InterestResendTime)]
        ELSE IF status = STATUS_ACTIVE /\ infoIntTimedOutCount = retryNumber
        THEN [adj |-> SetStatusOfNeighbor(adj1, neighbor, STATUS_INACTIVE),
              log |-> << Event("scheduleAdjLsaBuild", <<>>, 0) >>]
        ELSE [adj |-> adj1, log |-> <<>>]

\* processInterestTimedOut marking down past the retry limit, not at it
ProcessInterestTimedOut_LateDown(adj, retryNumber, interestName) ==
  IF ToUri(Get(interestName, -2)) # INFO_COMPONENT THEN [adj |-> adj, log |-> <<>>]
  ELSE
    LET neighbor == GetPrefix(interestName, 3)
        adj1 == IncrementTimedOutInterestCount(adj, neighbor)
        status == GetStatusOfNeighbor(adj1, neighbor)
        infoIntTimedOutCount == GetTimedOutInterestCount(adj1, neighbor)
    IN  IF infoIntTimedOutCount < retryNumber
        THEN [adj |-> adj1,
              log |-> ExpressInterest(HelloInterestName(neighbor), InterestResendTime)]
        ELSE IF status = STATUS_ACTIVE /\ infoIntTimedOutCount > retryNumber
        THEN [adj |-> SetStatusOfNeighbor(adj1, neighbor, STATUS_INACTIVE),
              log |-> << Event("scheduleAdjLsaBuild", <<>>, 0) >>]
        ELSE [adj |-> adj1, log |-> <<>>]

\* processInterestTimedOut with the comparison to the retry limit reversed
ProcessInterestTimedOut_ReversedTest(adj, retryNumber, interestName) ==
  IF ToUri(Get(interestName, -2)) # INFO_COMPONENT THEN [adj |-> adj, log |-> <<>>]
  ELSE
    LET neighbor == GetPrefix(interestName, 3)
        adj1 == IncrementTimedOutInterestCount(adj, neighbor)
        status == GetStatusOfNeighbor(adj1, neighbor)
        infoIntTimedOutCount == GetTimedOutInterestCount(adj1, neighbor)
    IN  IF infoIntTimedOutCount > retryNumber
        THEN [adj |-> adj1,
              log |-> ExpressInterest(HelloInterestName(neighbor), InterestResendTime)]
        ELSE IF status = STATUS_ACTIVE /\ infoIntTimedOutCount = retryNumber
        THEN [adj |-> SetStatusOfNeighbor(adj1, neighbor, STATUS_INACTIVE),
              log |-> << Event("scheduleAdjLsaBuild", <<>>, 0) >>]
        ELSE [adj |-> adj1, log |-> <<>>]

\* processInterestTimedOut without the test of the status before marking down
ProcessInterestTimedOut_NoStatusTest(adj, retryNumber, interestName) ==
  IF ToUri(Get(interestName, -2)) # INFO_COMPONENT THEN [adj |-> adj, log |-> <<>>]
  ELSE
    LET neighbor == GetPrefix(interestName, 3)
        adj1 == IncrementTimedOutInterestCount(adj, neighbor)
        infoIntTimedOutCount == GetTimedOutInterestCount(adj1, neighbor)
    IN  IF infoIntTimedOutCount < retryNumber
        THEN [adj |-> adj1,
              log |-> ExpressInterest(HelloInterestName(neighbor), InterestResendTime)]
        ELSE IF infoIntTimedOutCount = retryNumber
        THEN [adj |-> SetStatusOfNeighbor(adj1, neighbor, STATUS_INACTIVE),
              log |-> << Event("scheduleAdjLsaBuild", <<>>, 0) >>]
        ELSE [adj |-> adj1, log |-> <<>>]

\* HelloProtocol::processInterestTimedOut: the adjacency list it leaves and
\* the calls it makes
ProcessInterestTimedOut(adj, retryNumber, interestName) ==
  IF ToUri(Get(interestName, -2)) # INFO_COMPONENT THEN [adj |-> adj, log |-> <<>>]
  ELSE
    LET neighbor == GetPrefix(interestName, 3)
        adj1 == IncrementTimedOutInterestCount(adj, neighbor)
        status == GetStatusOfNeighbor(adj1, neighbor)
        infoIntTimedOutCount == GetTimedOutInterestCount(adj1, neighbor)
    IN  IF infoIntTimedOutCount < retryNumber
        THEN [adj |-> adj1,
              log |-> ExpressInterest(HelloInterestName(neighbor), InterestResendTime)]
        ELSE IF status = STATUS_ACTIVE /\ infoIntTimedOutCount = retryNumber
        THEN [adj |-> SetStatusOfNeighbor(adj1, neighbor, STATUS_INACTIVE),
              log |-> << Event("scheduleAdjLsaBuild", <<>>, 0) >>]
        ELSE [adj |-> adj1, log |-> <<>>]

\* HelloProtocol::onContent: the Data goes to the validator
OnContent(dataName) == << Event("validate", dataName, 0) >>

\* onContentValidated with the two triggers exchanged
OnContentValidated_ModesSwapped(adj, hyperbolic, dataName) ==
  LET rcv == << Signal("RCV_HELLO_DATA") >> IN
  IF ToUri(Get(dataName, -3)) = INFO_COMPONENT
  THEN
    LET neighbor == GetPrefix(dataName, 4)
        oldStatus == GetStatusOfNeighbor(adj, neighbor)
        adj1 == SetStatusOfNeighbor(adj, neighbor, STATUS_ACTIVE)
        adj2 == SetTimedOutInterestCount(adj1, neighbor, 0)
        newStatus == GetStatusOfNeighbor(adj2, neighbor)
    IN  [adj |-> adj2,
         log |-> (IF (oldStatus - newStatus) # 0
                  THEN (IF hyperbolic
                        THEN << Event("scheduleAdjLsaBuild", <<>>, 0) >>
                        ELSE << Event("scheduleRoutingTableCalculation", <<>>, 0) >>)
                  ELSE <<>>) \o rcv]
  ELSE [adj |-> adj, log |-> rcv]

\* onContentValidated without the comparison of the old and the new status
OnContentValidated_AlwaysTriggers(adj, hyperbolic, dataName) ==
  LET rcv == << Signal("RCV_HELLO_DATA") >> IN
  IF ToUri(Get(dataName, -3)) = INFO_COMPONENT
  THEN
    LET neighbor == GetPrefix(dataName, 4)
        adj1 == SetStatusOfNeighbor(adj, neighbor, STATUS_ACTIVE)
        adj2 == SetTimedOutInterestCount(adj1, neighbor, 0)
    IN  [adj |-> adj2,
         log |-> (IF hyperbolic
                  THEN << Event("scheduleRoutingTableCalculation", <<>>, 0) >>
                  ELSE << Event("scheduleAdjLsaBuild", <<>>, 0) >>) \o rcv]
  ELSE [adj |-> adj, log |-> rcv]

\* onContentValidated without the reset of the timeout count
OnContentValidated_NoReset(adj, hyperbolic, dataName) ==
  LET rcv == << Signal("RCV_HELLO_DATA") >> IN
  IF ToUri(Get(dataName, -3)) = INFO_COMPONENT
  THEN
    LET neighbor == GetPrefix(dataName, 4)
        oldStatus == GetStatusOfNeighbor(adj, neighbor)
        adj1 == SetStatusOfNeighbor(adj, neighbor, STATUS_ACTIVE)
        newStatus == GetStatusOfNeighbor(adj1, neighbor)
    IN  [adj |-> adj1,
         log |-> (IF (oldStatus - newStatus) # 0
                  THEN (IF hyperbolic
                        THEN << Event("scheduleRoutingTableCalculation", <<>>, 0) >>
                        ELSE << Event("scheduleAdjLsaBuild", <<>>, 0) >>)
                  ELSE <<>>) \o rcv]
  ELSE [adj |-> adj, log |-> rcv]

\* HelloProtocol::onContentValidated
OnContentValidated(adj, hyperbolic, dataName) ==
  LET rcv == << Signal("RCV_HELLO_DATA") >> IN
  IF ToUri(Get(dataName, -3)) = INFO_COMPONENT
  THEN
    LET neighbor == GetPrefix(dataName, 4)
        oldStatus == GetStatusOfNeighbor(adj, neighbor)
        adj1 == SetStatusOfNeighbor(adj, neighbor, STATUS_ACTIVE)
        adj2 == SetTimedOutInterestCount(adj1, neighbor, 0)
        newStatus == GetStatusOfNeighbor(adj2, neighbor)
    IN  [adj |-> adj2,
         log |-> (IF (oldStatus - newStatus) # 0
                  THEN (IF hyperbolic
                        THEN << Event("scheduleRoutingTableCalculation", <<>>, 0) >>
                        ELSE << Event("scheduleAdjLsaBuild", <<>>, 0) >>)
                  ELSE <<>>) \o rcv]
  ELSE [adj |-> adj, log |-> rcv]

\* onContentValidationFailed counting the Data as received
OnContentValidationFailed_CountsData(adj, dataName) ==
  [adj |-> adj, log |-> << Signal("RCV_HELLO_DATA") >>]

\* HelloProtocol::onContentValidationFailed: a debug line
OnContentValidationFailed(adj, dataName) == [adj |-> adj, log |-> <<>>]

(* ------------------------------------------------------------------ *)
(* State                                                              *)
(* ------------------------------------------------------------------ *)

VARIABLES
  adjList,              \* m_confParam.getAdjacencyList(): the list of Adjacent
  interestRetryNumber,  \* m_confParam.getInterestRetryNumber()
  hyperbolicState,      \* m_confParam.getHyperbolicState() == HYPERBOLIC_STATE_ON
  pendingInterests,     \* m_face: expressed Interests not yet answered, name -> how many
  validating,           \* the validator: Data without a verdict yet, name -> how many
  scheduled,            \* m_scheduler: sendScheduledInterest events waiting
  out,                  \* the last handler call: which, on what name, its calls
  timeoutsSince,        \* history, no state of the program: per neighbor, the
                        \* timeouts of its probes since its last validated response
  node,                 \* two routers that are each other's neighbor: the state
                        \* of the HelloProtocol of each
  wire,                 \* the Interests and Data in flight between the two
  names                 \* a neighbor's and a router's identity, and the probe
                        \* and response names built from them

vars == <<adjList, interestRetryNumber, hyperbolicState, pendingInterests,
          validating, scheduled, out, timeoutsSince, node, wire, names>>

\* the state of the pair of routers
pair == <<node, wire>>

\* a bag as a function from its members to their positive counts
EmptyBag == <<>>
BagCount(bag, x) == IF x \in DOMAIN bag THEN bag[x] ELSE 0
BagAdd(bag, x) ==
  IF x \in DOMAIN bag THEN [bag EXCEPT ![x] = @ + 1] ELSE bag @@ (x :> 1)
BagRemove(bag, x) ==
  IF bag[x] > 1 THEN [bag EXCEPT ![x] = @ - 1]
  ELSE [y \in DOMAIN bag \ {x} |-> bag[y]]
RECURSIVE BagSize(_)
BagSize(bag) ==
  IF DOMAIN bag = {} THEN 0
  ELSE LET x == CHOOSE y \in DOMAIN bag : TRUE
       IN  bag[x] + BagSize([y \in DOMAIN bag \ {x} |-> bag[y]])

\* the Interests a call expressed join the face's pending Interests
RECURSIVE AddExpressed(_, _)
AddExpressed(pending, log) ==
  IF log = <<>> THEN pending
  ELSE AddExpressed(IF Head(log).ev = "expressInterest"
                    THEN BagAdd(pending, Head(log).name) ELSE pending,
                    Tail(log))

Call(handler, name, log) == [handler |-> handler, name |-> name, log |-> log]

\* the bounds of the exploration
WithinPending(pending) == BagSize(pending) <= MaxPending
WithinTimedOut(adj) ==
  \A i \in 1..Len(adj) : adj[i].interestTimedOutNo <= interestRetryNumber + MaxTimedOut

\* the prefix the Interest filter of processInterest is set on: /<router>/nlsr/INFO
HelloPrefix == AppendStr(AppendStr(RouterPrefix, NLSR_COMPONENT), INFO_COMPONENT)

\* the names of the Interests that arrive under that prefix
IncomingInterestNames ==
  { AppendBlock(HelloPrefix, WireEncode(n)) : n \in {NeighborA, NeighborB, Stranger} }
  \cup { AppendBlock(AppendStr(HelloPrefix, INFO_COMPONENT), WireEncode(NeighborA)),
         AppendStr(AppendBlock(HelloPrefix, WireEncode(NeighborA)), <<120>>),
         AppendStr(HelloPrefix, INFO_COMPONENT),
         HelloPrefix }

\* the names of the Data that may answer an Interest (CanBePrefix)
DataNames(interestName) ==
  { AppendVersion(interestName, v) : v \in Versions }
  \cup { interestName,
         AppendStr(AppendStr(AppendStr(interestName, INFO_COMPONENT), <<120>>), <<120>>) }

Init ==
  /\ adjList = << Adjacent(NeighborA, 0, STATUS_INACTIVE, 0),
                  Adjacent(NeighborB, 0, STATUS_INACTIVE, 0) >>
  /\ interestRetryNumber \in 0..MaxRetry
  /\ hyperbolicState \in BOOLEAN
  /\ pendingInterests = EmptyBag
  /\ validating = EmptyBag
  /\ scheduled = 0
  /\ out = Call("HelloProtocol", <<>>, <<>>)
  /\ timeoutsSince = [i \in 1..2 |-> 0]
  /\ node = <<>>
  /\ wire = {}
  /\ names = <<>>

config == <<interestRetryNumber, hyperbolicState>>

(* ------------------------------------------------------------------ *)
(* Actions                                                            *)
(* ------------------------------------------------------------------ *)

\* the daemon's start: the one call of scheduleInterest from outside, made
\* before the event loop runs any handler
FirstHelloInterval == 10
Kickoff ==
  /\ out.handler = "HelloProtocol"
  /\ scheduled = 0
  /\ scheduled' = 1
  /\ out' = Call("scheduleInterest", <<>>, ScheduleInterest(FirstHelloInterval))
  /\ UNCHANGED <<adjList, config, pendingInterests, validating, timeoutsSince, pair, names>>

\* a scheduled event fires: sendScheduledInterest
PeriodicPass ==
  /\ scheduled > 0
  /\ LET log == SendScheduledInterest(adjList) IN
     /\ pendingInterests' = AddExpressed(pendingInterests, log)
     /\ WithinPending(pendingInterests')
     /\ scheduled' = scheduled - 1 + Count(log, "schedule")
     /\ out' = Call("sendScheduledInterest", <<>>, log)
  /\ UNCHANGED <<adjList, config, validating, timeoutsSince, pair, names>>

\* processInterest marking the sender of an answered probe ACTIVE itself
IncomingInterest_MarksActive(interestName, version) ==
  /\ LET log == ProcessInterest(adjList, interestName, version) IN
     /\ pendingInterests' = AddExpressed(pendingInterests, log)
     /\ WithinPending(pendingInterests')
     /\ out' = Call("processInterest", interestName, log)
     /\ adjList' = IF Count(log, "put") > 0
                   THEN SetStatusOfNeighbor(adjList, WireDecode(Get(interestName, -1)),
                                            STATUS_ACTIVE)
                   ELSE adjList
  /\ UNCHANGED <<config, validating, scheduled, timeoutsSince, pair, names>>

\* an Interest arrives under the hello prefix: processInterest
IncomingInterest(interestName, version) ==
  /\ LET log == ProcessInterest(adjList, interestName, version) IN
     /\ pendingInterests' = AddExpressed(pendingInterests, log)
     /\ WithinPending(pendingInterests')
     /\ out' = Call("processInterest", interestName, log)
  /\ UNCHANGED <<adjList, config, validating, scheduled, timeoutsSince, pair, names>>

TimedOutStep(handler, interestName) ==
  /\ interestName \in DOMAIN pendingInterests
  /\ LET r == ProcessInterestTimedOut(adjList, interestRetryNumber, interestName) IN
     /\ adjList' = r.adj
     /\ WithinTimedOut(adjList')
     /\ pendingInterests' = AddExpressed(BagRemove(pendingInterests, interestName), r.log)
     /\ out' = Call(handler, interestName, r.log)
  /\ timeoutsSince' = [i \in DOMAIN timeoutsSince |->
                         IF interestName = HelloInterestName(adjList[i].name)
                         THEN timeoutsSince[i] + 1 ELSE timeoutsSince[i]]
  /\ UNCHANGED <<config, validating, scheduled, pair, names>>

\* a pending Interest's lifetime ends: the timeout callback
Timeout(interestName) == TimedOutStep("processInterestTimedOut", interestName)

\* a nack that only ends the Interest: processInterestTimedOut is not called
Nack_Dropped(interestName) ==
  /\ interestName \in DOMAIN pendingInterests
  /\ pendingInterests' = BagRemove(pendingInterests, interestName)
  /\ out' = Call("onNack", interestName, <<>>)
  /\ UNCHANGED <<adjList, config, validating, scheduled, timeoutsSince, pair, names>>

\* a pending Interest is nacked: the nack callback calls processInterestTimedOut
Nack(interestName) == TimedOutStep("onNack", interestName)

\* Data arrives for a pending Interest: onContent
Content(interestName, dataName) ==
  /\ interestName \in DOMAIN pendingInterests
  /\ BagSize(validating) < MaxValidating
  /\ pendingInterests' = BagRemove(pendingInterests, interestName)
  /\ validating' = BagAdd(validating, dataName)
  /\ out' = Call("onContent", dataName, OnContent(dataName))
  /\ UNCHANGED <<adjList, config, scheduled, timeoutsSince, pair, names>>

\* the validator accepts: onContentValidated
Validated(dataName) ==
  /\ dataName \in DOMAIN validating
  /\ LET r == OnContentValidated(adjList, hyperbolicState, dataName) IN
     /\ adjList' = r.adj
     /\ out' = Call("onContentValidated", dataName, r.log)
  /\ validating' = BagRemove(validating, dataName)
  /\ timeoutsSince' = [i \in DOMAIN timeoutsSince |->
                         IF \E v \in Versions :
                              dataName = AppendVersion(HelloInterestName(adjList[i].name), v)
                         THEN 0 ELSE timeoutsSince[i]]
  /\ UNCHANGED <<config, pendingInterests, scheduled, pair, names>>

\* the validator rejects: onContentValidationFailed
ValidationFailed(dataName) ==
  /\ dataName \in DOMAIN validating
  /\ LET r == OnContentValidationFailed(adjList, dataName) IN
     /\ adjList' = r.adj
     /\ out' = Call("onContentValidationFailed", dataName, r.log)
  /\ validating' = BagRemove(validating, dataName)
  /\ UNCHANGED <<config, pendingInterests, scheduled, timeoutsSince, pair, names>>

\* the daemon outside this file gives a neighbor a face, or takes it away
SetFaceId(i, faceId) ==
  /\ adjList[i].faceId # faceId
  /\ adjList[i].name \in FacedNeighbors
  /\ adjList' = [adjList EXCEPT ![i].faceId = faceId]
  /\ out' = Call("setFaceId", adjList[i].name, <<>>)
  /\ UNCHANGED <<config, pendingInterests, validating, scheduled, timeoutsSince, pair, names>>

PendingNames == { HelloInterestName(n) : n \in {NeighborA, NeighborB} }

\* the event loop runs once the daemon has started
Running == out.handler # "HelloProtocol"

Next ==
  \/ Kickoff
  \/ Running /\ PeriodicPass
  \/ Running /\ \E n \in IncomingInterestNames, v \in Versions : IncomingInterest(n, v)
  \/ Running /\ \E p \in PendingNames : Timeout(p)
  \/ Running /\ \E p \in PendingNames : Nack(p)
  \/ Running /\ \E p \in PendingNames : \E d \in DataNames(p) : Content(p, d)
  \/ Running /\ \E p \in PendingNames : \E d \in DataNames(p) : Validated(d)
  \/ Running /\ \E p \in PendingNames : \E d \in DataNames(p) : ValidationFailed(d)
  \/ Running /\ \E i \in 1..Len(adjList), f \in FaceIds : SetFaceId(i, f)

Spec == Init /\ [][Next]_vars

\* The transport ends the life of every pending Interest: one that stays
\* pending times out or is nacked.  The scheduler fires every scheduled event.
LiveSpec ==
  /\ Spec
  /\ \A p \in PendingNames : WF_vars(Timeout(p) \/ Nack(p))
  /\ WF_vars(PeriodicPass)

\* The validator, too, gives every Data it holds its verdict.
AdversarySpec ==
  /\ LiveSpec
  /\ \A p \in PendingNames : \A d \in DataNames(p) :
       WF_vars(Validated(d) \/ ValidationFailed(d))

(* ------------------------------------------------------------------ *)
(* Two routers that are each other's neighbor                         *)
(* ------------------------------------------------------------------ *)

\* the two routers: the router under study and its neighbor /a
Routers == << RouterPrefix, NeighborA >>
Peer(i) == IF i = 1 THEN 2 ELSE 1

\* the state of the HelloProtocol of one router; passes is history: the
\* periodic passes that have run there
Node(adj, hyperbolic) ==
  [adjList |-> adj, hyperbolicState |-> hyperbolic,
   pendingInterests |-> EmptyBag, validating |-> EmptyBag,
   scheduled |-> 1, passes |-> 0]

\* packets in flight
Interest(name, from, to) == [kind |-> "interest", name |-> name, from |-> from, to |-> to]
Data(name, from, to) == [kind |-> "data", name |-> name, from |-> from, to |-> to]

\* interest.setCanBePrefix(true): the Interest's name is a prefix of the Data's
IsPrefixOf(interestName, dataName) ==
  /\ Len(interestName) <= Len(dataName)
  /\ SubSeq(dataName, 1, Len(interestName)) = interestName

\* the routers an Interest of that name is forwarded to: those whose hello
\* prefix /<router>/nlsr/INFO it is under
HomesOf(name) ==
  { j \in 1..Len(Routers) :
      IsPrefixOf(AppendStr(AppendStr(Routers[j], NLSR_COMPONENT), INFO_COMPONENT), name) }

\* the Interests router i puts on the wire in a call
Expressed(i, log) ==
  UNION { { Interest(log[k].name, i, j) : j \in HomesOf(log[k].name) \ {i} } :
          k \in { l \in 1..Len(log) : log[l].ev = "expressInterest" } }

\* the Data router i sends back to the requester in a call
Put(i, log, to) ==
  { Data(log[k].name, i, to) : k \in { k \in 1..Len(log) : log[k].ev = "put" } }

\* the state of the router under study is not part of the pair
single == <<adjList, config, pendingInterests, validating, scheduled, out, timeoutsSince>>

\* each router holds the other as INACTIVE, with a face and whatever count
PairInit ==
  /\ \E c1, c2 \in {0, MaxRetry} :
       node = << Node(<< Adjacent(NeighborA, 256, STATUS_INACTIVE, c1),
                         Adjacent(NeighborB, 0, STATUS_INACTIVE, 0) >>, FALSE),
                 Node(<< Adjacent(RouterPrefix, 256, STATUS_INACTIVE, c2) >>, TRUE) >>
  /\ wire = {}
  /\ adjList = <<>>
  /\ interestRetryNumber = 0
  /\ hyperbolicState = FALSE
  /\ pendingInterests = EmptyBag
  /\ validating = EmptyBag
  /\ scheduled = 0
  /\ out = Call("HelloProtocol", <<>>, <<>>)
  /\ timeoutsSince = <<>>
  /\ names = <<>>

\* the scheduled event of router i fires: sendScheduledInterest (explored
\* while it leaves room for a probe that answers an incoming one)
PairPass(i) ==
  /\ node[i].scheduled > 0
  /\ node[i].passes < MaxPasses
  /\ LET log == SendScheduledInterestAt(Routers[i], node[i].adjList)
         pending == AddExpressed(node[i].pendingInterests, log)
     IN  /\ BagSize(pending) < MaxPending
         /\ node' = [node EXCEPT ![i].pendingInterests = pending,
                                 ![i].scheduled = @ - 1 + Count(log, "schedule"),
                                 ![i].passes = @ + 1]
         /\ wire' = wire \cup Expressed(i, log)
  /\ UNCHANGED <<single, names>>

\* an Interest reaches the router it is for: processInterest there
DeliverInterest(m, version) ==
  /\ m \in wire
  /\ m.kind = "interest"
  /\ LET log == ProcessInterestAt(Routers[m.to], node[m.to].adjList, m.name, version)
         pending == AddExpressed(node[m.to].pendingInterests, log)
     IN  /\ WithinPending(pending)
         /\ node' = [node EXCEPT ![m.to].pendingInterests = pending]
         /\ wire' = (wire \ {m}) \cup Put(m.to, log, m.from) \cup Expressed(m.to, log)
  /\ UNCHANGED <<single, names>>

\* the pending Interests of a router that a Data satisfies
Satisfied(pending, dataName) == { p \in DOMAIN pending : IsPrefixOf(p, dataName) }

\* onContent for each pending Interest the Data satisfies: the Interest is
\* pending no more and the Data goes to the validator
OnContentOfEach(n, satisfied, dataName) ==
  LET k == BagSize([p \in satisfied |-> n.pendingInterests[p]]) IN
  [n EXCEPT !.pendingInterests = [p \in DOMAIN @ \ satisfied |-> @[p]],
            !.validating = IF k = 0 THEN @
                           ELSE IF dataName \in DOMAIN @
                                THEN [@ EXCEPT ![dataName] = @ + k]
                                ELSE @ @@ (dataName :> k)]

\* a Data reaches the router that asked for it: onContent for every pending
\* Interest it satisfies; a Data nobody waits for is dropped
DeliverData(m) ==
  /\ m \in wire
  /\ m.kind = "data"
  /\ LET n == OnContentOfEach(node[m.to],
                              Satisfied(node[m.to].pendingInterests, m.name), m.name)
     IN  /\ BagSize(n.validating) <= MaxPending
         /\ node' = [node EXCEPT ![m.to] = n]
  /\ wire' = wire \ {m}
  /\ UNCHANGED <<single, names>>

\* the validator of router i accepts a Data: onContentValidated
PairValidated(i, dataName) ==
  /\ dataName \in DOMAIN node[i].validating
  /\ LET r == OnContentValidated(node[i].adjList, node[i].hyperbolicState, dataName) IN
       node' = [node EXCEPT ![i].adjList = r.adj,
                            ![i].validating = BagRemove(@, dataName)]
  /\ UNCHANGED <<wire, single, names>>

\* the packets of the hello protocol between the two routers: the probe of
\* router i and the response to it
ProbeOf(i) == Interest(HelloInterestNameAt(Routers[i], Routers[Peer(i)]), i, Peer(i))
ResponseTo(i, version) == Data(AppendVersion(ProbeOf(i).name, version), Peer(i), i)

PairNext ==
  \/ \E i \in 1..2 : PairPass(i)
  \/ \E m \in wire, v \in Versions : DeliverInterest(m, v)
  \/ \E m \in wire : DeliverData(m)
  \/ \E i \in 1..2 : \E d \in DOMAIN node[i].validating : PairValidated(i, d)

PairSpec == PairInit /\ [][PairNext]_vars

\* All packets between the two are delivered and every Data is validated.
\* Nothing makes a periodic pass run.
PairLiveSpec ==
  /\ PairSpec
  /\ WF_vars(\E m \in wire, v \in Versions : DeliverInterest(m, v))
  /\ WF_vars(\E m \in wire : DeliverData(m))
  /\ WF_vars(\E i \in 1..2 : \E d \in DOMAIN node[i].validating : PairValidated(i, d))

(* ------------------------------------------------------------------ *)
(* The names of probes and responses, for any two identities          *)
(* ------------------------------------------------------------------ *)

\* components an identity is made of: text, the marker's own text, a
\* component that looks like a version, an empty one and a typed one
IdentityComponents ==
  { Component(GenericNameComponent, <<97>>),
    Component(GenericNameComponent, INFO_COMPONENT),
    Component(GenericNameComponent, <<VersionMarker, 1>>),
    Component(GenericNameComponent, <<>>),
    Component(32, <<0>>) }

RECURSIVE NamesOfLength(_)
NamesOfLength(k) ==
  IF k = 0 THEN { <<>> }
  ELSE { Append(n, c) : n \in NamesOfLength(k - 1), c \in IdentityComponents }

Identities == UNION { NamesOfLength(k) : k \in 0..MaxComponents }

CodecInit ==
  /\ \E n, r \in Identities :
       names = [neighbor |-> n, router |-> r, interestName |-> <<>>, dataName |-> <<>>,
                built |-> "none"]
  /\ adjList = <<>>
  /\ interestRetryNumber = 0
  /\ hyperbolicState = FALSE
  /\ pendingInterests = EmptyBag
  /\ validating = EmptyBag
  /\ scheduled = 0
  /\ out = Call("HelloProtocol", <<>>, <<>>)
  /\ timeoutsSince = <<>>
  /\ node = <<>>
  /\ wire = {}

\* the router builds the name of its probe to the neighbor
BuildInterestName ==
  /\ names.built = "none"
  /\ names' = [names EXCEPT !.interestName = HelloInterestNameAt(names.router, names.neighbor),
                            !.built = "interest"]
  /\ UNCHANGED <<single, pair>>

\* the neighbor builds the name of its response: data->setName(
\* ndn::Name(interest.getName()).appendVersion())
BuildDataName(version) ==
  /\ names.built = "interest"
  /\ names' = [names EXCEPT !.dataName = AppendVersion(names.interestName, version),
                            !.built = "data"]
  /\ UNCHANGED <<single, pair>>

CodecNext ==
  \/ BuildInterestName
  \/ \E v \in Versions : BuildDataName(v)

CodecSpec == CodecInit /\ [][CodecNext]_vars

(* ------------------------------------------------------------------ *)
(* Vocabulary of the properties                                       *)
(* ------------------------------------------------------------------ *)

Neighbors == {NeighborA, NeighborB}

Status(adj, n) == GetStatusOfNeighbor(adj, n)
TimedOutCount(adj, n) == GetTimedOutInterestCount(adj, n)
FaceId(adj, n) == FindAdjacent(adj, n).faceId

\* the response a neighbor sends to the probe addressed to it
HelloDataName(n, v) == AppendVersion(HelloInterestName(n), v)

TimedOutHandlers == {"processInterestTimedOut", "onNack"}

\* the call recorded in c is the timeout (or nack) of a probe to n
IsTimedOutOf(c, n) == c.handler \in TimedOutHandlers /\ c.name = HelloInterestName(n)

\* the call recorded in c is onContentValidated of a response of n
IsValidatedOf(c, n) ==
  c.handler = "onContentValidated" /\ \E v \in Versions : c.name = HelloDataName(n, v)

Rebuilds(c) == Count(c.log, "scheduleAdjLsaBuild")
Recalculations(c) == Count(c.log, "scheduleRoutingTableCalculation")
Triggers(c) == Rebuilds(c) + Recalculations(c)
Probes(c) == Count(c.log, "expressInterest")
ProbesTo(c, n) == CountTo(c.log, "expressInterest", HelloInterestName(n))

(* ------------------------------------------------------------------ *)
(* C1                                                                 *)
(* ------------------------------------------------------------------ *)

\* C1: the timeout that brings the count of an ACTIVE neighbor to exactly the
\* retry limit marks it INACTIVE and calls scheduleAdjLsaBuild exactly once;
\* a timeout for a neighbor that is INACTIVE leaves it INACTIVE and calls
\* neither scheduleAdjLsaBuild nor scheduleRoutingTableCalculation.
C1_DownOnceStep ==
  \A n \in Neighbors :
    IsTimedOutOf(out', n) =>
      /\ (Status(adjList, n) = STATUS_ACTIVE
          /\ TimedOutCount(adjList', n) = interestRetryNumber)
         => /\ Status(adjList', n) = STATUS_INACTIVE
            /\ Rebuilds(out') = 1
      /\ Status(adjList, n) = STATUS_INACTIVE
         => /\ Status(adjList', n) = STATUS_INACTIVE
            /\ Triggers(out') = 0
C1_DownOnce == [][C1_DownOnceStep]_vars

\* the retry-limit-th timeout of the probe to /a has just marked it INACTIVE
C1_Witness ==
  /\ IsTimedOutOf(out, NeighborA)
  /\ Rebuilds(out) = 1
  /\ Status(adjList, NeighborA) = STATUS_INACTIVE
  /\ TimedOutCount(adjList, NeighborA) = interestRetryNumber

(* ------------------------------------------------------------------ *)
(* C2                                                                 *)
(* ------------------------------------------------------------------ *)

StatusChanged == \E i \in 1..Len(adjList) : adjList'[i].status # adjList[i].status

\* C2: a step calls a downstream trigger (scheduleAdjLsaBuild or
\* scheduleRoutingTableCalculation) if and only if it changes the status of
\* some neighbor.
C2_TriggerIffChangeStep == (Triggers(out') > 0) <=> StatusChanged
C2_TriggerIffChange == [][C2_TriggerIffChangeStep]_vars

\* a validated response of /a, already ACTIVE, has been handled: no trigger
C2_Witness ==
  /\ IsValidatedOf(out, NeighborA)
  /\ Triggers(out) = 0
  /\ Status(adjList, NeighborA) = STATUS_ACTIVE

(* ------------------------------------------------------------------ *)
(* C3                                                                 *)
(* ------------------------------------------------------------------ *)

\* C3: after onContentValidated of a response of neighbor n, n is ACTIVE with
\* a timeout count of 0, and handling the same response again would leave
\* the adjacency list as it is.
C3_ResetStep ==
  \A n \in Neighbors :
    IsValidatedOf(out', n) =>
      /\ Status(adjList', n) = STATUS_ACTIVE
      /\ TimedOutCount(adjList', n) = 0
      /\ OnContentValidated(adjList', hyperbolicState, out'.name).adj = adjList'
C3_Reset == [][C3_ResetStep]_vars

\* a validated response of /a, INACTIVE until then, has been handled
C3_Witness ==
  /\ IsValidatedOf(out, NeighborA)
  /\ Triggers(out) = 1
  /\ Status(adjList, NeighborA) = STATUS_ACTIVE
  /\ TimedOutCount(adjList, NeighborA) = 0

(* ------------------------------------------------------------------ *)
(* C4                                                                 *)
(* ------------------------------------------------------------------ *)

\* C4: no probe is emitted to a neighbor that has no face (face id 0) at the
\* moment of the emission, whichever handler emits it.
C4_NoProbeWithoutFace ==
  \A n \in Neighbors : ProbesTo(out, n) > 0 => FaceId(adjList, n) # 0

(* ------------------------------------------------------------------ *)
(* C5                                                                 *)
(* ------------------------------------------------------------------ *)

\* C5: a timeout for neighbor n that leaves its count, incremented by exactly
\* one, below the retry limit expresses exactly one Interest, to n and with
\* the configured lifetime, leaves the status of n as it was and calls no
\* trigger, whether n is ACTIVE or INACTIVE.
C5_RetryStep ==
  \A n \in Neighbors :
    (IsTimedOutOf(out', n) /\ TimedOutCount(adjList', n) < interestRetryNumber) =>
      /\ TimedOutCount(adjList', n) = TimedOutCount(adjList, n) + 1
      /\ Probes(out') = 1
      /\ \E i \in 1..Len(out'.log) :
           out'.log[i] = Event("expressInterest", HelloInterestName(n), InterestResendTime)
      /\ BagCount(pendingInterests', HelloInterestName(n))
           = BagCount(pendingInterests, HelloInterestName(n))
      /\ Status(adjList', n) = Status(adjList, n)
      /\ Triggers(out') = 0
C5_Retry == [][C5_RetryStep]_vars

\* a timeout of the probe to /a, ACTIVE, has been retried
C5_Witness ==
  /\ IsTimedOutOf(out, NeighborA)
  /\ Probes(out) = 1
  /\ Status(adjList, NeighborA) = STATUS_ACTIVE
  /\ TimedOutCount(adjList, NeighborA) = 1
  /\ interestRetryNumber = 2

(* ------------------------------------------------------------------ *)
(* C6                                                                 *)
(* ------------------------------------------------------------------ *)

\* C6: when a validated response moves neighbor n from INACTIVE to ACTIVE,
\* exactly one trigger is called: scheduleRoutingTableCalculation alone when
\* hyperbolic routing is on, scheduleAdjLsaBuild alone otherwise.
C6_TriggerByModeStep ==
  \A n \in Neighbors :
    (/\ IsValidatedOf(out', n)
     /\ Status(adjList, n) = STATUS_INACTIVE
     /\ Status(adjList', n) = STATUS_ACTIVE) =>
      IF hyperbolicState
      THEN Recalculations(out') = 1 /\ Rebuilds(out') = 0
      ELSE Rebuilds(out') = 1 /\ Recalculations(out') = 0
C6_TriggerByMode == [][C6_TriggerByModeStep]_vars

\* with hyperbolic routing on, /a has just come up
C6_Witness ==
  /\ hyperbolicState
  /\ IsValidatedOf(out, NeighborA)
  /\ Recalculations(out) = 1
  /\ Status(adjList, NeighborA) = STATUS_ACTIVE

(* ------------------------------------------------------------------ *)
(* C7                                                                 *)
(* ------------------------------------------------------------------ *)

InfoMarker == Component(GenericNameComponent, INFO_COMPONENT)

\* the last component of the name is the encoding of the name of a neighbor
FromNeighbor(interestName, n) ==
  Get(interestName, -1) = Component(GenericNameComponent, WireEncode(n))

\* the probe has the marker before its last component and comes from a neighbor
WellFormedProbe(interestName) ==
  /\ Get(interestName, -2) = InfoMarker
  /\ \E n \in Neighbors : FromNeighbor(interestName, n)

Responses(c) == Count(c.log, "put")

\* C7: processInterest sends a response if and only if the second-to-last
\* component of the name is the INFO marker and the last one encodes the name
\* of a neighbor; otherwise RCV_HELLO_INTEREST is signalled and nothing else:
\* no response, no SENT_HELLO_DATA, no SENT_HELLO_INTEREST, no Interest
\* expressed, the adjacency list as it was.
C7_AnswerStep ==
  out'.handler = "processInterest" =>
    /\ Count(out'.log, "RCV_HELLO_INTEREST") = 1
    /\ (Responses(out') = 1) <=> WellFormedProbe(out'.name)
    /\ ~WellFormedProbe(out'.name) =>
         /\ Responses(out') = 0
         /\ Count(out'.log, "SENT_HELLO_DATA") = 0
         /\ Count(out'.log, "SENT_HELLO_INTEREST") = 0
         /\ Probes(out') = 0
         /\ Triggers(out') = 0
         /\ pendingInterests' = pendingInterests
         /\ adjList' = adjList
FirstOf(log, ev) ==
  IF \E i \in 1..Len(log) : log[i].ev = ev
  THEN CHOOSE i \in 1..Len(log) : log[i].ev = ev /\ \A j \in 1..(i-1) : log[j].ev # ev
  ELSE 0

\* C8: on a well-formed probe from neighbor r the response is sent, and
\* one Interest is expressed, to r and after the response, if and only if r
\* is INACTIVE and has a face; otherwise no Interest is expressed.
C8_ReciprocalStep ==
  \A r \in Neighbors :
    (/\ out'.handler = "processInterest"
     /\ Get(out'.name, -2) = InfoMarker
     /\ FromNeighbor(out'.name, r)) =>
      /\ Responses(out') = 1
      /\ Count(out'.log, "SENT_HELLO_DATA") = 1
      /\ IF Status(adjList, r) = STATUS_INACTIVE /\ FaceId(adjList, r) # 0
         THEN /\ Probes(out') = 1
              /\ ProbesTo(out', r) = 1
              /\ FirstOf(out'.log, "put") < FirstOf(out'.log, "expressInterest")
              /\ BagCount(pendingInterests', HelloInterestName(r))
                   = BagCount(pendingInterests, HelloInterestName(r)) + 1
         ELSE /\ Probes(out') = 0
              /\ pendingInterests' = pendingInterests
C8_Reciprocal == [][C8_ReciprocalStep]_vars

\* a probe of /a, INACTIVE with a face, has been answered and reciprocated
C8_Witness ==
  /\ out.handler = "processInterest"
  /\ FromNeighbor(out.name, NeighborA)
  /\ Responses(out) = 1
  /\ ProbesTo(out, NeighborA) = 1
  /\ Status(adjList, NeighborA) = STATUS_INACTIVE

(* ------------------------------------------------------------------ *)
(* C9                                                                 *)
(* ------------------------------------------------------------------ *)

\* C9: a response that fails validation changes nothing: from onContent to
\* onContentValidationFailed the adjacency list stays as it is, no Interest
\* is expressed, no trigger is called and RCV_HELLO_DATA is not signalled.
C9_FailedStep ==
  out'.handler \in {"onContent", "onContentValidationFailed"} =>
    /\ adjList' = adjList
    /\ BagSize(pendingInterests') = (IF out'.handler = "onContent"
                                     THEN BagSize(pendingInterests) - 1
                                     ELSE BagSize(pendingInterests))
    /\ Probes(out') = 0
    /\ Triggers(out') = 0
    /\ Count(out'.log, "RCV_HELLO_DATA") = 0
    /\ Count(out'.log, "SENT_HELLO_INTEREST") = 0
C9_Failed == [][C9_FailedStep]_vars

\* the response of /a has failed validation
C9_Witness ==
  /\ out.handler = "onContentValidationFailed"
  /\ \E v \in Versions : out.name = HelloDataName(NeighborA, v)

(* ------------------------------------------------------------------ *)
(* C10                                                                *)
(* ------------------------------------------------------------------ *)

TimeoutsSince(n) == timeoutsSince[Find(adjList, n)]

\* Data has arrived for a probe to n, or a response of n has been validated
AnsweredOf(c, n) ==
  \/ c.handler = "onContent" /\ c.name \in DataNames(HelloInterestName(n))
  \/ IsValidatedOf(c, n)

\* an ACTIVE neighbor goes INACTIVE only in the timeout of one of its probes
\* that is the retry-limit-th since its last validated response
C10_DownAtLimitStep ==
  \A n \in Neighbors :
    (Status(adjList, n) = STATUS_ACTIVE /\ Status(adjList', n) # STATUS_ACTIVE) =>
      /\ IsTimedOutOf(out', n)
      /\ Status(adjList', n) = STATUS_INACTIVE
      /\ timeoutsSince'[Find(adjList, n)] = interestRetryNumber

\* with a retry limit of at least 1, an ACTIVE neighbor with a face becomes
\* INACTIVE unless Data arrives for one of its probes, one of its responses is
\* validated or it loses its face
C10_EventuallyDown ==
  \A n \in Neighbors :
    (/\ interestRetryNumber >= 1
     /\ Status(adjList, n) = STATUS_ACTIVE
     /\ FaceId(adjList, n) # 0)
    ~> (\/ Status(adjList, n) = STATUS_INACTIVE
        \/ AnsweredOf(out, n)
        \/ FaceId(adjList, n) = 0)

\* C10: sustained loss is detected.  With a retry limit of at least 1, an
\* ACTIVE neighbor with a face whose probes all time out (or are nacked),
\* and for which no response arrives any more, eventually becomes INACTIVE,
\* and it does so at the retry-limit-th timeout since its last validated
\* response, not earlier.
C10_SustainedLoss == C10_EventuallyDown /\ [][C10_DownAtLimitStep]_vars

\* /a, once ACTIVE, has gone INACTIVE at the second timeout since its last
\* validated response, the retry limit being 2
C10_Witness ==
  /\ interestRetryNumber = 2
  /\ IsTimedOutOf(out, NeighborA)
  /\ Rebuilds(out) = 1
  /\ Status(adjList, NeighborA) = STATUS_INACTIVE
  /\ TimeoutsSince(NeighborA) = 2

(* ------------------------------------------------------------------ *)
(* C11                                                                *)
(* ------------------------------------------------------------------ *)

\* a timeout of a probe to n has found its count at or above the retry limit
\* and no response of n has been validated since
Down(n) ==
  TimeoutsSince(n) > 0 /\ TimedOutCount(adjList, n) >= interestRetryNumber

\* the claim as it stands: while n is down, no handler but the validated
\* response's own emits a probe to n
C11_NoProbeWhileDownStep ==
  \A n \in Neighbors :
    (Down(n) /\ ~IsValidatedOf(out', n)) => ProbesTo(out', n) = 0
C11_NoProbeWhileDown == [][C11_NoProbeWhileDownStep]_vars

\* the handlers that probe a neighbor whatever its timeout count
UnconditionalProbers == {"sendScheduledInterest", "processInterest"}

C11_NoRetryWhileDownStep ==
  \A n \in Neighbors :
    \* the timeout that finds the count at or above the limit emits nothing
    /\ (IsTimedOutOf(out', n)
          /\ TimedOutCount(adjList', n) >= interestRetryNumber) => Probes(out') = 0
    \* n stays down until one of its responses is validated
    /\ (Down(n) /\ ~IsValidatedOf(out', n)) =>
          TimedOutCount(adjList', n) >= interestRetryNumber
    \* and until then only the periodic pass and the handling of an incoming
    \* probe emit a probe to it
    /\ (Down(n) /\ ~IsValidatedOf(out', n) /\ ProbesTo(out', n) > 0) =>
          out'.handler \in UnconditionalProbers

\* C11 (amended): once a timeout for neighbor N has found its timeout count at
\* or above the retry limit, the timeout handler emits no further probe to N
\* until a validated response for N has arrived; the periodic pass and the
\* handling of a probe from N still emit probes to N.
C11_NoRetryWhileDown == [][C11_NoRetryWhileDownStep]_vars

\* a further timeout of a probe to /a, down already, has emitted nothing
C11_Witness ==
  /\ interestRetryNumber >= 1
  /\ IsTimedOutOf(out, NeighborA)
  /\ TimedOutCount(adjList, NeighborA) > interestRetryNumber
  /\ TimeoutsSince(NeighborA) > 1
  /\ Status(adjList, NeighborA) = STATUS_INACTIVE
  /\ Probes(out) = 0

(* ------------------------------------------------------------------ *)
(* C12                                                                *)
(* ------------------------------------------------------------------ *)

C12_StatusWritersStep ==
  /\ out'.handler = "processInterest" =>
       \A i \in 1..Len(adjList) :
         /\ adjList'[i].status = adjList[i].status
         /\ adjList'[i].interestTimedOutNo = adjList[i].interestTimedOutNo
  /\ \A n \in Neighbors :
       Status(adjList', n) # Status(adjList, n) =>
         \/ /\ out'.handler \in TimedOutHandlers
            /\ Status(adjList, n) = STATUS_ACTIVE
            /\ Status(adjList', n) = STATUS_INACTIVE
         \/ /\ out'.handler = "onContentValidated"
            /\ Status(adjList', n) = STATUS_ACTIVE

\* C12: handling an incoming probe changes no neighbor's status and no
\* neighbor's timeout count, whatever the probe's name and sender; a status
\* changes only in the timeout handler, from ACTIVE to INACTIVE, and in the
\* validated-response handler, to ACTIVE.
C12_StatusWriters == [][C12_StatusWritersStep]_vars

\* a probe from /a, INACTIVE with timeouts counted, has been answered and
\* reciprocated: /a is INACTIVE still, its count kept
C12_Witness ==
  /\ out.handler = "processInterest"
  /\ Responses(out) = 1
  /\ ProbesTo(out, NeighborA) = 1
  /\ Status(adjList, NeighborA) = STATUS_INACTIVE
  /\ TimedOutCount(adjList, NeighborA) > 0

(* ------------------------------------------------------------------ *)
(* C13                                                                *)
(* ------------------------------------------------------------------ *)

\* the validator has accepted Data that answered a probe to n
AcceptedOf(c, n) ==
  c.handler = "onContentValidated" /\ c.name \in DataNames(HelloInterestName(n))

\* C13: failure detection makes progress under adversarial responses.  With a
\* retry limit of at least 1, an ACTIVE neighbor with a face whose probes
\* either time out or are answered by Data that fails validation, none being
\* answered by validated Data, is eventually marked INACTIVE.
C13_AdversarialProgress ==
  \A n \in Neighbors :
    (/\ interestRetryNumber >= 1
     /\ Status(adjList, n) = STATUS_ACTIVE
     /\ FaceId(adjList, n) # 0)
    ~> (\/ Status(adjList, n) = STATUS_INACTIVE
        \/ AcceptedOf(out, n)
        \/ FaceId(adjList, n) = 0)

(* ------------------------------------------------------------------ *)
(* C14                                                                *)
(* ------------------------------------------------------------------ *)

\* in the pair, router i holds the other router as status
Holds(i, status) ==
  GetStatusOfNeighbor(node[i].adjList, Routers[Peer(i)]) = status

\* a probe of router i to the other router is in flight
ProbeInFlight(i) == ProbeOf(i) \in wire

\* C14: two routers that are each other's neighbors, with faces, and hold each
\* other INACTIVE re-synchronize from a single probe: once one of them has a
\* probe to the other in flight, all packets being delivered and validated,
\* each comes to hold the other ACTIVE, whether or not the periodic pass of
\* the probed router ever runs.
C14_Resync ==
  ((\E i \in 1..2 : ProbeInFlight(i))
     /\ Holds(1, STATUS_INACTIVE) /\ Holds(2, STATUS_INACTIVE))
    ~> (Holds(1, STATUS_ACTIVE) /\ Holds(2, STATUS_ACTIVE))

\* both hold the other ACTIVE and /a has never run a periodic pass
C14_Witness ==
  /\ node # <<>>
  /\ Holds(1, STATUS_ACTIVE)
  /\ Holds(2, STATUS_ACTIVE)
  /\ node[1].passes = 1
  /\ node[2].passes = 0

(* ------------------------------------------------------------------ *)
(* C15                                                                *)
(* ------------------------------------------------------------------ *)

\* C15: round trip of the name encoding, for identities of any number of
\* components.  The probe name n/nlsr/INFO/<r> has the INFO marker at offset
\* -2, its prefix without the last 3 components is n and its last component
\* decodes to r; the response name, the probe name and one version component,
\* has the marker at offset -3 and its prefix without the last 4 components
\* is n.
C15_RoundTrip ==
  /\ names.built \in {"interest", "data"} =>
       /\ ToUri(Get(names.interestName, -2)) = INFO_COMPONENT
       /\ GetPrefix(names.interestName, 3) = names.neighbor
       /\ CanWireDecode(Get(names.interestName, -1))
       /\ WireDecode(Get(names.interestName, -1)) = names.router
  /\ names.built = "data" =>
       /\ Len(names.dataName) = Len(names.interestName) + 1
       /\ ToUri(Get(names.dataName, -3)) = INFO_COMPONENT
       /\ GetPrefix(names.dataName, 4) = names.neighbor

\* the response name has been built for a neighbor /a/INFO and a router
\* whose identity has a typed component and one that looks like a version
C15_Witness ==
  /\ names # <<>>
  /\ names.built = "data"
  /\ names.neighbor = << Component(GenericNameComponent, <<97>>),
                         Component(GenericNameComponent, INFO_COMPONENT) >>
  /\ names.router = << Component(32, <<0>>),
                       Component(GenericNameComponent, <<VersionMarker, 1>>) >>

(* ------------------------------------------------------------------ *)
(* C16                                                                *)
(* ------------------------------------------------------------------ *)

C16_DownRebuildsStep ==
  \A n \in Neighbors :
    (/\ out'.handler \in TimedOutHandlers
     /\ Status(adjList, n) = STATUS_ACTIVE
     /\ Status(adjList', n) = STATUS_INACTIVE) =>
      /\ Rebuilds(out') >= 1
      /\ Recalculations(out') = 0

\* C16: the transition from ACTIVE to INACTIVE that the timeout handler makes
\* calls scheduleAdjLsaBuild and never scheduleRoutingTableCalculation, with
\* hyperbolic routing on and with it off.
C16_DownRebuilds == [][C16_DownRebuildsStep]_vars

\* with hyperbolic routing on, a timeout has taken /a from ACTIVE to INACTIVE
\* and called scheduleAdjLsaBuild
C16_Witness ==
  /\ hyperbolicState
  /\ interestRetryNumber >= 1
  /\ IsTimedOutOf(out, NeighborA)
  /\ Status(adjList, NeighborA) = STATUS_INACTIVE
  /\ TimedOutCount(adjList, NeighborA) = interestRetryNumber
  /\ Rebuilds(out) = 1
  /\ Recalculations(out) = 0

(* ------------------------------------------------------------------ *)
(* C17                                                                *)
(* ------------------------------------------------------------------ *)

\* a run of sendScheduledInterest expresses one Interest to each neighbor
\* with a face and none to the others, then schedules the next run, once
C17_PassStep ==
  out'.handler = "sendScheduledInterest" =>
    /\ \A n \in Neighbors :
         ProbesTo(out', n) = (IF FaceId(adjList, n) # 0 THEN 1 ELSE 0)
    /\ Probes(out') = Cardinality({n \in Neighbors : FaceId(adjList, n) # 0})
    /\ Count(out'.log, "schedule") = 1
    /\ out'.log[Len(out'.log)] = Event("schedule", <<>>, InfoInterestInterval)

\* after the kickoff one run is scheduled, never more
C17_OneScheduled == scheduled <= 1 /\ (Running => scheduled = 1)

\* the periodic pass has just probed n
PassProbed(n) == out.handler = "sendScheduledInterest" /\ ProbesTo(out, n) = 1

\* the exploration stops here: the Interests of one more run would exceed
\* MaxPending pending Interests
PassBeyondBound ==
  ~WithinPending(AddExpressed(pendingInterests, SendScheduledInterest(adjList)))

\* C17: every run of the periodic pass emits exactly one probe to each
\* neighbor that has a face, whatever its status and timeout count, and then
\* schedules exactly one next run, also when no neighbor has a face; after the
\* single kickoff at most one run is scheduled at any time, and a neighbor
\* that keeps its face is probed by the pass again and again (as far as the
\* exploration follows the passes: up to MaxPending pending Interests).
C17_PeriodicPass ==
  /\ [][C17_PassStep]_vars
  /\ []C17_OneScheduled
  /\ \A n \in Neighbors :
       []<>(FaceId(adjList, n) = 0 \/ PassProbed(n) \/ PassBeyondBound)

\* a run has probed /a, INACTIVE with its count above the retry limit, and
\* not the face-less /b/INFO, and has scheduled the next run
C17_Witness ==
  /\ PassProbed(NeighborA)
  /\ Status(adjList, NeighborA) = STATUS_INACTIVE
  /\ TimedOutCount(adjList, NeighborA) > interestRetryNumber
  /\ ProbesTo(out, NeighborB) = 0
  /\ scheduled = 1

(* ------------------------------------------------------------------ *)
(* C18                                                                *)
(* ------------------------------------------------------------------ *)

\* what the end of a pending Interest, by timeout or by nack, makes of the
\* state: a function of the state and of the Interest's name alone
C18_NackAsTimeoutStep ==
  out'.handler \in TimedOutHandlers =>
    LET r == ProcessInterestTimedOut(adjList, interestRetryNumber, out'.name) IN
    /\ out'.name \in DOMAIN pendingInterests
    /\ adjList' = r.adj
    /\ out'.log = r.log
    /\ pendingInterests' = AddExpressed(BagRemove(pendingInterests, out'.name), r.log)
    /\ UNCHANGED <<config, validating, scheduled>>

\* C18: a negative acknowledgement of a probe has exactly the effect of a
\* timeout of the same probe: from any state both lead to the same adjacency
\* list, the same expressed Interests, the same signalled counters and the
\* same triggers.
C18_NackAsTimeout == [][C18_NackAsTimeoutStep]_vars

\* a nack has taken /a from ACTIVE to INACTIVE and called scheduleAdjLsaBuild
C18_Witness ==
  /\ out.handler = "onNack"
  /\ out.name = HelloInterestName(NeighborA)
  /\ interestRetryNumber >= 1
  /\ Rebuilds(out) = 1
  /\ Status(adjList, NeighborA) = STATUS_INACTIVE

(* ------------------------------------------------------------------ *)
(* C19                                                                *)
(* ------------------------------------------------------------------ *)

\* C19: with a retry limit of at least 1, and every neighbor INACTIVE with a
\* count of 0 at the start, a neighbor that is ACTIVE has a timeout count
\* below the retry limit in every reachable state, whatever the interleaving
\* of timeouts (also of probes expressed before the last validated response),
\* validated responses, validation failures, incoming probes and passes.
C19_ActiveBelowLimit ==
  interestRetryNumber >= 1 =>
    \A n \in Neighbors :
      Status(adjList, n) = STATUS_ACTIVE =>
        TimedOutCount(adjList, n) < interestRetryNumber

\* /a is ACTIVE and a probe expressed before its last validated response has
\* timed out: its count is 1, the retry limit 2, and it has been probed again
C19_Witness ==
  /\ interestRetryNumber = 2
  /\ IsTimedOutOf(out, NeighborA)
  /\ Status(adjList, NeighborA) = STATUS_ACTIVE
  /\ TimedOutCount(adjList, NeighborA) = 1
  /\ TimeoutsSince(NeighborA) = 1
  /\ ProbesTo(out, NeighborA) = 1

(* ------------------------------------------------------------------ *)
(* C20                                                                *)
(* ------------------------------------------------------------------ *)

C20_ZeroRetryStep ==
  (interestRetryNumber = 0 /\ out'.handler \in TimedOutHandlers) =>
    /\ Probes(out') = 0
    /\ Triggers(out') = 0
    /\ \A n \in Neighbors : Status(adjList', n) = Status(adjList, n)
    /\ \A n \in Neighbors : TimedOutCount(adjList', n) > 0 \/ ~IsTimedOutOf(out', n)

\* C20: with a retry limit of 0 no timeout moves an ACTIVE neighbor to
\* INACTIVE, expresses an Interest again or calls a trigger: the count is
\* incremented before it is compared, so that it is neither below the limit
\* nor equal to it.
C20_ZeroRetry == [][C20_ZeroRetryStep]_vars

\* with a retry limit of 0 a probe to /a, ACTIVE, has timed out: /a is ACTIVE
\* still, its count is above the limit and the handler has called nothing
C20_Witness ==
  /\ interestRetryNumber = 0
  /\ IsTimedOutOf(out, NeighborA)
  /\ Status(adjList, NeighborA) = STATUS_ACTIVE
  /\ TimedOutCount(adjList, NeighborA) >= 1
  /\ out.log = <<>>

====
